---- MODULE Spec2Model ----
(***************************************************************************)
(* Model of lm04-stats: the Spotify track-widget handler                   *)
(* (src/src/api/spotify.rs) and the OAuth credential refresh               *)
(* (src/src/models/spotify_token.rs).                                      *)
(*                                                                         *)
(* Spec       the request handler: NumReqs requests run concurrently over  *)
(*            the single credential table and the upstream service.       *)
(* SpecParse  the pure JSON normalisers applied to a bounded universe of   *)
(*            JSON values.                                                 *)
(***************************************************************************)
EXTENDS Integers, Sequences, FiniteSets, TLC

(***************************************************************************)
(* serde_json::Value.  A JSON value is a record tagged by t.  An object    *)
(* is a function over AllKeys in which a missing key maps to Absent, so    *)
(* that "key present with value null" and "key missing" stay distinct.     *)
(***************************************************************************)
AllKeys ==
    {"id", "name", "album", "artists", "explicit", "preview_url",
     "duration_ms", "popularity", "images", "url", "height", "width",
     "type", "is_playing", "item", "items", "played_at", "track"}

Absent == [t |-> "absent"]

JNull == [t |-> "null"]

JBool(b) == [t |-> "bool", v |-> b]

\* an integer number n
JInt(n) == [t |-> "num", frac |-> FALSE, v |-> n]

\* a number with a fractional part (n + 0.5)
JFloat(n) == [t |-> "num", frac |-> TRUE, v |-> n]

JStr(s) == [t |-> "str", v |-> s]

JArr(seq) == [t |-> "arr", v |-> seq]

\* the object with the members of the record f
JObj(f) == [t |-> "obj", v |-> [k \in AllKeys |-> IF k \in DOMAIN f THEN f[k] ELSE Absent]]

JEmptyObj == [t |-> "obj", v |-> [k \in AllKeys |-> Absent]]

\* the object o without the key k
JWithout(o, k) == [t |-> "obj", v |-> [o.v EXCEPT ![k] = Absent]]

\* Option<T>
None == [some |-> FALSE]

Some(x) == [some |-> TRUE, v |-> x]

\* impl Index<&str> for Value: Null when the value is no object or lacks the key
ValueIndex(j, k) ==
    IF j.t = "obj" /\ j.v[k] # Absent THEN j.v[k] ELSE JNull

\* impl Index<&Q> for Map<String, Value>: panics when the key is missing
MapHasKey(m, k) == m[k] # Absent

MapIndex(m, k) == m[k]

as_str(j) == IF j.t = "str" THEN Some(j.v) ELSE None

as_bool(j) == IF j.t = "bool" THEN Some(j.v) ELSE None

\* Some only for a non-negative integer number
as_u64(j) == IF j.t = "num" /\ ~j.frac /\ j.v >= 0 THEN Some(j.v) ELSE None

as_array(j) == IF j.t = "arr" THEN Some(j.v) ELSE None

as_object(j) == IF j.t = "obj" THEN Some(j.v) ELSE None

unwrap_or(o, d) == IF o.some THEN o.v ELSE d

U8 == 256

\* `as u8`: the truncating cast
as_u8(n) == n % U8

(***************************************************************************)
(* The normalisers of src/src/api/spotify.rs.  A normaliser that can       *)
(* panic returns Panicked or Returned(value).                              *)
(***************************************************************************)
Panicked == [panic |-> TRUE]

Returned(x) == [panic |-> FALSE, v |-> x]

parse_artist(artist) ==
    [id   |-> unwrap_or(as_str(ValueIndex(artist, "id")), ""),
     name |-> unwrap_or(as_str(ValueIndex(artist, "name")), "")]

parse_artists_from_json(artists_value) ==
    LET artists == unwrap_or(as_array(artists_value), <<>>)
    IN  [i \in 1..Len(artists) |-> parse_artist(artists[i])]

parse_album_image(image) ==
    [url    |-> unwrap_or(as_str(ValueIndex(image, "url")), ""),
     height |-> as_u64(ValueIndex(image, "height")),
     width  |-> as_u64(ValueIndex(image, "width"))]

parse_album_images_from_json(images_value) ==
    LET images == unwrap_or(as_array(images_value), <<>>)
    IN  [i \in 1..Len(images) |-> parse_album_image(images[i])]

parse_album_from_json(album_data) ==
    [id      |-> unwrap_or(as_str(ValueIndex(album_data, "id")), ""),
     name    |-> unwrap_or(as_str(ValueIndex(album_data, "name")), ""),
     artists |-> parse_artists_from_json(ValueIndex(album_data, "artists")),
     images  |-> parse_album_images_from_json(ValueIndex(album_data, "images"))]

\* the keys parse_track_from_json indexes its Map with
TrackKeys ==
    {"id", "name", "album", "artists", "explicit", "preview_url",
     "duration_ms", "popularity"}

\* track_data is a serde_json::Map: indexing it with a missing key panics
parse_track_from_json(track_data) ==
    IF \E k \in TrackKeys : ~MapHasKey(track_data, k)
    THEN Panicked
    ELSE Returned(
        [id          |-> unwrap_or(as_str(MapIndex(track_data, "id")), ""),
         name        |-> unwrap_or(as_str(MapIndex(track_data, "name")), ""),
         album       |-> parse_album_from_json(MapIndex(track_data, "album")),
         artists     |-> parse_artists_from_json(MapIndex(track_data, "artists")),
         explicit    |-> unwrap_or(as_bool(MapIndex(track_data, "explicit")), FALSE),
         preview_url |-> as_str(MapIndex(track_data, "preview_url")),
         duration_ms |-> unwrap_or(as_u64(MapIndex(track_data, "duration_ms")), 0),
         popularity  |-> as_u8(unwrap_or(as_u64(MapIndex(track_data, "popularity")), 0))])

TrackDetails(item, is_playing, played_at) ==
    [item |-> item, is_playing |-> is_playing, played_at |-> played_at]

EmptyTrackDetails == TrackDetails(None, FALSE, None)

parse_currently_playing_response(json) ==
    LET is_playing == unwrap_or(as_bool(ValueIndex(json, "is_playing")), FALSE)
        item_data  == as_object(ValueIndex(json, "item"))
    IN  IF ~item_data.some
        THEN Returned(TrackDetails(None, is_playing, None))
        ELSE IF ~MapHasKey(item_data.v, "type")
        THEN Panicked
        ELSE IF as_str(MapIndex(item_data.v, "type")) # Some("track")
        THEN Returned(TrackDetails(None, is_playing, None))
        ELSE LET track == parse_track_from_json(item_data.v)
             IN  IF track.panic
                 THEN Panicked
                 ELSE Returned(TrackDetails(Some(track.v), is_playing, None))

parse_recently_played_response(json) ==
    LET items == unwrap_or(as_array(ValueIndex(json, "items")), <<>>)
    IN  IF Len(items) = 0
        THEN Returned(EmptyTrackDetails)
        ELSE LET most_recent_item == items[1]
                 played_at  == as_str(ValueIndex(most_recent_item, "played_at"))
                 track_data == as_object(ValueIndex(most_recent_item, "track"))
             IN  IF ~track_data.some
                 THEN Returned(TrackDetails(None, FALSE, played_at))
                 ELSE LET track == parse_track_from_json(track_data.v)
                      IN  IF track.panic
                          THEN Panicked
                          ELSE Returned(TrackDetails(Some(track.v), FALSE, played_at))

(***************************************************************************)
(* Bounds of the model.                                                    *)
(***************************************************************************)
\* number of requests handled concurrently under Spec
NumReqs == 2

\* the clock runs from 0 to MaxTime
MaxTime == 1

\* expires_at of the credential the store starts with, when it has one
InitExpiresAt == 1

\* the positive expires_in the token endpoint may answer with
TokenLifetime == 1

Reqs == 1..NumReqs

(***************************************************************************)
(* The credential table and the upstream service.                          *)
(***************************************************************************)
\* struct SpotifyToken: one row of table spotify_token
SpotifyToken(id, access_token, refresh_token, scope, expires_at, updated_at) ==
    [id |-> id, access_token |-> access_token, refresh_token |-> refresh_token,
     scope |-> scope, expires_at |-> expires_at, updated_at |-> updated_at]

\* the store starts with access token 0; request r's refresh is issued r
InitRefreshToken == "r0"

InitRow(expires_at) ==
    SpotifyToken(1, 0, InitRefreshToken, Some("scope"), expires_at, None)

\* the tables the program can start with: no row, or the single credential
InitStores ==
    {<<>>} \cup {<<InitRow(e)>> : e \in {None} \cup {Some(t) : t \in 0..InitExpiresAt}}

\* struct SpotifyRefreshResponse, as deserialised from the token endpoint
SpotifyRefreshResponse(access_token, refresh_token, expires_in) ==
    [access_token |-> access_token, refresh_token |-> refresh_token,
     expires_in |-> expires_in]

\* the refresh token the token endpoint rotates to
RotatedRefreshToken == "r1"

RefreshTokenVals == {None, Some(""), Some(RotatedRefreshToken)}

ExpiresInVals == {None, Some(-1), Some(0), Some(TokenLifetime)}

\* what a send() can end with
TransportError == [err |-> TRUE]

HttpResponse(status, body) == [err |-> FALSE, status |-> status, body |-> body]

\* a body that response.json() rejects
Unparseable == [ok |-> FALSE]

\* a body that response.json() accepts, with the value it yields
Parsed(x) == [ok |-> TRUE, v |-> x]

\* StatusCode::is_success
is_success(status) == status >= 200 /\ status < 300

\* answers of POST /api/token to request r
TokenOutcomes(r) ==
    {TransportError, HttpResponse(400, Unparseable), HttpResponse(200, Unparseable)}
    \cup {HttpResponse(200, Parsed(SpotifyRefreshResponse(r, rt, ei))) :
             rt \in RefreshTokenVals, ei \in ExpiresInVals}

(***************************************************************************)
(* JSON bodies of the player endpoints.                                    *)
(***************************************************************************)
FullArtist == JObj([id |-> JStr("ar1"), name |-> JStr("Artist")])

FullImage == JObj([url |-> JStr("img"), height |-> JInt(64), width |-> JInt(64)])

FullAlbum ==
    JObj([id |-> JStr("al1"), name |-> JStr("Album"),
          artists |-> JArr(<<FullArtist>>), images |-> JArr(<<FullImage>>)])

FullTrack ==
    JObj([type |-> JStr("track"), id |-> JStr("t1"), name |-> JStr("Song"),
          album |-> FullAlbum, artists |-> JArr(<<FullArtist>>),
          explicit |-> JBool(FALSE), preview_url |-> JNull,
          duration_ms |-> JInt(1000), popularity |-> JInt(50)])

Episode == JObj([type |-> JStr("episode"), id |-> JStr("e1"), name |-> JStr("Show")])

PlayedAt == "2024-01-01T00:00:00Z"

\* 200 bodies of GET /me/player/currently-playing
CpBodies ==
    {JObj([is_playing |-> JBool(TRUE), item |-> FullTrack]),
     JObj([is_playing |-> JBool(FALSE), item |-> FullTrack]),
     JObj([is_playing |-> JBool(TRUE), item |-> Episode]),
     JObj([is_playing |-> JBool(TRUE), item |-> JWithout(FullTrack, "preview_url")]),
     JObj([is_playing |-> JBool(TRUE), item |-> JEmptyObj]),
     JObj([is_playing |-> JBool(TRUE), item |-> JNull]),
     JArr(<<>>)}

\* 200 bodies of GET /me/player/recently-played
RpBodies ==
    {JObj([items |-> JArr(<<>>)]),
     JObj([items |-> JStr("none")]),
     JEmptyObj,
     JObj([items |-> JArr(<<JInt(7)>>)]),
     JObj([items |-> JArr(<<JObj([played_at |-> JStr(PlayedAt), track |-> FullTrack])>>)]),
     JObj([items |-> JArr(<<JObj([played_at |-> JInt(5), track |-> JStr("t1")])>>)]),
     JObj([items |-> JArr(<<JObj([played_at |-> JStr(PlayedAt), track |-> JEmptyObj])>>)])}

CpOutcomes ==
    {TransportError, HttpResponse(204, Unparseable), HttpResponse(401, Unparseable),
     HttpResponse(202, Unparseable), HttpResponse(500, Unparseable),
     HttpResponse(200, Unparseable)}
    \cup {HttpResponse(200, Parsed(j)) : j \in CpBodies}

RpOutcomes ==
    {TransportError, HttpResponse(401, Unparseable), HttpResponse(200, Unparseable)}
    \cup {HttpResponse(200, Parsed(j)) : j \in RpBodies}

(***************************************************************************)
(* The handler's responses (enum TrackWidgetResponse, struct ErrorResponse)*)
(***************************************************************************)
NoResponse == [status |-> 0]

OkResponse(track_details) == [status |-> 200, body |-> track_details]

ErrorResponse(status, code) == [status |-> status, code |-> code, details |-> None]

\* mutant: the 401 carries the upstream's error text
Unauthorized_leaking ==
    [status |-> 401, code |-> "SPOTIFY_AUTH_FAILED", details |-> Some("upstream error text")]

Unauthorized == ErrorResponse(401, "SPOTIFY_AUTH_FAILED")

InternalServerError(code) == ErrorResponse(500, code)

(***************************************************************************)
(* State.                                                                  *)
(***************************************************************************)
VARIABLES
    store,      \* table spotify_token: a sequence of rows
    now,        \* Utc::now()
    pc,         \* pc[r]: where request r stands
    token,      \* token[r]: the credential request r holds (Option)
    pending,    \* pending[r]: the arguments of request r's UPDATE (Option)
    resp,       \* resp[r]: the response request r gave, or NoResponse
    calls,      \* calls[r]: the upstream calls request r made, in order
    upstream,   \* how the two player endpoints answer in this run
    pfn,        \* SpecParse: the normaliser applied
    pin,        \* SpecParse: its input
    pout        \* SpecParse: its result

vars == <<store, now, pc, token, pending, resp, calls, upstream, pfn, pin, pout>>

handlerVars == <<store, now, pc, token, pending, resp, calls, upstream>>

parseVars == <<pfn, pin, pout>>

\* a request that has returned a response, and one that unwound in a panic
Terminal == {"done", "panicked"}

(***************************************************************************)
(* SpotifyToken (src/src/models/spotify_token.rs)                          *)
(***************************************************************************)
\* query_for_token: SELECT * FROM spotify_token LIMIT 1
query_for_token(table) == IF Len(table) = 0 THEN None ELSE Some(table[1])

\* mutant: a credential without expires_at counts as never expiring
needs_refresh_lenient(tok, t) ==
    IF ~tok.expires_at.some THEN FALSE ELSE t >= tok.expires_at.v

\* mutant: the boundary now = expires_at counts as still valid
needs_refresh_strict(tok, t) ==
    IF ~tok.expires_at.some THEN TRUE ELSE t > tok.expires_at.v

needs_refresh(tok, t) ==
    IF ~tok.expires_at.some THEN TRUE ELSE t >= tok.expires_at.v

\* refresh_token, lines 99-108: the values of the UPDATE
\* mutant: the expires_in of the response is never used
new_expires_at_dropped(refresh_response, t) == None

new_expires_at(refresh_response, t) ==
    IF refresh_response.expires_in.some
    THEN Some(t + refresh_response.expires_in.v)
    ELSE None

\* mutant: the rotated refresh token of the response is dropped
new_refresh_token_kept(refresh_response, tok) == tok.refresh_token

new_refresh_token(refresh_response, tok) ==
    unwrap_or(refresh_response.refresh_token, tok.refresh_token)

\* mutant: the access token of the response is not taken over
update_args_stale(refresh_response, tok, t) ==
    [id            |-> tok.id,
     access_token  |-> tok.access_token,
     refresh_token |-> new_refresh_token(refresh_response, tok),
     expires_at    |-> new_expires_at(refresh_response, t),
     updated_at    |-> Some(t)]

update_args(refresh_response, tok, t) ==
    [id            |-> tok.id,
     access_token  |-> refresh_response.access_token,
     refresh_token |-> new_refresh_token(refresh_response, tok),
     expires_at    |-> new_expires_at(refresh_response, t),
     updated_at    |-> Some(t)]

\* UPDATE spotify_token SET ... WHERE id = $5
\* mutant: the UPDATE leaves the refresh_token column as it finds it
update_row_partial(row, args) ==
    IF row.id = args.id
    THEN [row EXCEPT !.access_token = args.access_token,
                     !.expires_at = args.expires_at,
                     !.updated_at = args.updated_at]
    ELSE row

update_row(row, args) ==
    IF row.id = args.id
    THEN [row EXCEPT !.access_token = args.access_token,
                     !.refresh_token = args.refresh_token,
                     !.expires_at = args.expires_at,
                     !.updated_at = args.updated_at]
    ELSE row

\* mutant: the credential is inserted as a further row
update_table_insert(table, args) ==
    Append(table, SpotifyToken(args.id, args.access_token, args.refresh_token,
                               None, args.expires_at, args.updated_at))

update_table(table, args) == [i \in 1..Len(table) |-> update_row(table[i], args)]

\* what request r does once the token endpoint has answered with out
refresh_result(out, tok, t) ==
    IF out.err THEN [ok |-> FALSE, error |-> "HttpError"]
    ELSE IF ~is_success(out.status) THEN [ok |-> FALSE, error |-> "RefreshFailed"]
    ELSE IF ~out.body.ok THEN [ok |-> FALSE, error |-> "HttpError"]
    ELSE [ok |-> TRUE, args |-> update_args(out.body.v, tok, t)]

Respond(r, response) ==
    /\ pc' = [pc EXCEPT ![r] = "done"]
    /\ resp' = [resp EXCEPT ![r] = response]

\* get_valid_access_token up to its first upstream call; a failed query and an
\* empty table both end the request with 401
GetValidAccessToken(r) ==
    /\ pc[r] = "start"
    /\ \E db_ok \in BOOLEAN :
          LET found == query_for_token(store)
          IN  IF ~db_ok \/ ~found.some
              THEN /\ Respond(r, Unauthorized)
                   /\ UNCHANGED token
              ELSE /\ token' = [token EXCEPT ![r] = found]
                   /\ pc' = [pc EXCEPT ![r] =
                               IF needs_refresh(found.v, now) THEN "refresh" ELSE "fetch_cp"]
                   /\ UNCHANGED resp
    /\ UNCHANGED <<store, now, pending, calls, upstream, parseVars>>

\* refresh_token, lines 74-108: the POST and the reading of its answer
RefreshPost(r) ==
    /\ pc[r] = "refresh"
    /\ \E out \in TokenOutcomes(r) :
          LET res == refresh_result(out, token[r].v, now)
          IN  /\ calls' = [calls EXCEPT ![r] = Append(@,
                    [ep |-> "token", refresh_token |-> token[r].v.refresh_token,
                     out |-> out])]
              /\ IF res.ok
                 THEN /\ pending' = [pending EXCEPT ![r] = Some(res.args)]
                      /\ pc' = [pc EXCEPT ![r] = "update"]
                      /\ UNCHANGED resp
                 ELSE /\ Respond(r, Unauthorized)
                      /\ UNCHANGED pending
    /\ UNCHANGED <<store, now, token, upstream, parseVars>>

\* refresh_token, lines 110-127: the UPDATE ... RETURNING *; a database error
\* or no row to return ends the request with 401
RefreshUpdate(r) ==
    /\ pc[r] = "update"
    /\ \E db_ok \in BOOLEAN :
          LET args    == pending[r].v
              updated == update_table(store, args)
              hit     == {i \in 1..Len(store) : store[i].id = args.id}
          IN  IF ~db_ok \/ hit = {}
              THEN /\ Respond(r, Unauthorized)
                   /\ UNCHANGED <<store, token>>
              ELSE /\ store' = updated
                   /\ token' = [token EXCEPT ![r] =
                                  Some(updated[CHOOSE i \in hit : \A j \in hit : i <= j])]
                   /\ pc' = [pc EXCEPT ![r] = "fetch_cp"]
                   /\ UNCHANGED resp
    /\ UNCHANGED <<now, pending, calls, upstream, parseVars>>

(***************************************************************************)
(* SpotifyApi (src/src/api/spotify.rs)                                     *)
(***************************************************************************)
\* the step a request takes: respond, go on to recently-played, or panic
StepRespond(response) == [pc |-> "done", resp |-> response]

StepFallback == [pc |-> "fetch_rp", resp |-> NoResponse]

StepPanic == [pc |-> "panicked", resp |-> NoResponse]

\* get_currently_playing, lines 86-148, given the answer of currently-playing
\* mutant: every status but 200 is taken as nothing playing
currently_playing_step_lenient(out) ==
    IF out.err THEN StepRespond(InternalServerError("SPOTIFY_API_ERROR"))
    ELSE IF out.status = 200
    THEN IF ~out.body.ok
         THEN StepRespond(InternalServerError("SPOTIFY_RESPONSE_PARSE_FAILURE"))
         ELSE LET currently_playing == parse_currently_playing_response(out.body.v)
              IN  IF currently_playing.panic THEN StepPanic
                  ELSE IF currently_playing.v.item.some
                  THEN StepRespond(OkResponse(currently_playing.v))
                  ELSE StepFallback
    ELSE StepFallback

currently_playing_step(out) ==
    IF out.err THEN StepRespond(InternalServerError("SPOTIFY_API_ERROR"))
    ELSE IF out.status = 200
    THEN IF ~out.body.ok
         THEN StepRespond(InternalServerError("SPOTIFY_RESPONSE_PARSE_FAILURE"))
         ELSE LET currently_playing == parse_currently_playing_response(out.body.v)
              IN  IF currently_playing.panic THEN StepPanic
                  ELSE IF currently_playing.v.item.some
                  THEN StepRespond(OkResponse(currently_playing.v))
                  ELSE StepFallback
    ELSE IF out.status = 204 THEN StepFallback
    ELSE StepRespond(InternalServerError("SPOTIFY_UNEXPECTED_RESPONSE"))

\* Result<TrackDetails, Box<dyn Error>> of fetch_recently_played_track
RpErr == [ok |-> FALSE, panic |-> FALSE]

RpPanic == [ok |-> FALSE, panic |-> TRUE]

RpOk(track_details) == [ok |-> TRUE, panic |-> FALSE, v |-> track_details]

fetch_recently_played_track(out) ==
    IF out.err THEN RpErr
    ELSE IF out.status = 200
    THEN IF ~out.body.ok
         THEN RpErr
         ELSE LET recently_played == parse_recently_played_response(out.body.v)
              IN  IF recently_played.panic THEN RpPanic ELSE RpOk(recently_played.v)
    ELSE RpErr

handle_no_track_playing(out) ==
    LET recently_played == fetch_recently_played_track(out)
    IN  IF recently_played.panic THEN StepPanic
        ELSE IF recently_played.ok THEN StepRespond(OkResponse(recently_played.v))
        ELSE StepRespond(OkResponse(EmptyTrackDetails))

Take(r, step) ==
    /\ pc' = [pc EXCEPT ![r] = step.pc]
    /\ resp' = [resp EXCEPT ![r] = step.resp]

\* fetch_currently_playing_track and the match on its answer
FetchCurrentlyPlaying(r) ==
    /\ pc[r] = "fetch_cp"
    /\ calls' = [calls EXCEPT ![r] = Append(@,
          [ep |-> "cp", bearer |-> token[r].v.access_token])]
    /\ Take(r, currently_playing_step(upstream.cp))
    /\ UNCHANGED <<store, now, token, pending, upstream, parseVars>>

\* handle_no_track_playing with its call of fetch_recently_played_track
FetchRecentlyPlayed(r) ==
    /\ pc[r] = "fetch_rp"
    /\ calls' = [calls EXCEPT ![r] = Append(@,
          [ep |-> "rp", bearer |-> token[r].v.access_token])]
    /\ Take(r, handle_no_track_playing(upstream.rp))
    /\ UNCHANGED <<store, now, token, pending, upstream, parseVars>>

\* the clock advances
Tick ==
    /\ now < MaxTime
    /\ now' = now + 1
    /\ UNCHANGED <<store, pc, token, pending, resp, calls, upstream, parseVars>>

ParseIdle == pfn = "none" /\ pin = JNull /\ pout = JNull

\* the answers of the player endpoints that lead a request through different
\* code: recently-played is only asked after a fallback
WidgetUpstreams ==
    {u \in [cp : CpOutcomes, rp : RpOutcomes] :
        currently_playing_step(u.cp).pc = "fetch_rp" \/ u.rp = TransportError}

\* a track is playing; nothing is playing and one track was played
RaceUpstreams ==
    {[cp |-> HttpResponse(200, Parsed(JObj([is_playing |-> JBool(TRUE), item |-> FullTrack]))),
      rp |-> TransportError],
     [cp |-> HttpResponse(204, Unparseable),
      rp |-> HttpResponse(200, Parsed(JObj([items |-> JArr(
                <<JObj([played_at |-> JStr(PlayedAt), track |-> FullTrack])>>)])))]}

\* the requests in admitted arrive, the others never do
InitHandler(admitted, upstreams) ==
    /\ store \in InitStores
    /\ now = 0
    /\ pc = [r \in Reqs |-> IF r \in admitted THEN "start" ELSE "idle"]
    /\ token = [r \in Reqs |-> None]
    /\ pending = [r \in Reqs |-> None]
    /\ resp = [r \in Reqs |-> NoResponse]
    /\ calls = [r \in Reqs |-> <<>>]
    /\ upstream \in upstreams
    /\ ParseIdle

\* all requests race over the credential
Init == InitHandler(Reqs, RaceUpstreams)

\* one request, every answer of the player endpoints
InitWidget == InitHandler({1}, WidgetUpstreams)

Next ==
    \/ \E r \in Reqs : GetValidAccessToken(r)
    \/ \E r \in Reqs : RefreshPost(r)
    \/ \E r \in Reqs : RefreshUpdate(r)
    \/ \E r \in Reqs : FetchCurrentlyPlaying(r)
    \/ \E r \in Reqs : FetchRecentlyPlayed(r)
    \/ Tick

Spec == Init /\ [][Next]_vars

SpecWidget == InitWidget /\ [][Next]_vars

\* the steps of request r; each awaits a store or upstream call
RequestStep(r) ==
    \/ GetValidAccessToken(r)
    \/ RefreshPost(r)
    \/ RefreshUpdate(r)
    \/ FetchCurrentlyPlaying(r)
    \/ FetchRecentlyPlayed(r)

\* every store and upstream call returns and the runtime polls every task
CallsReturn == \A r \in Reqs : WF_vars(RequestStep(r))

SpecWidgetLive == SpecWidget /\ CallsReturn

(***************************************************************************)
(* SpecParse: the normalisers over a bounded universe of JSON values.      *)
(***************************************************************************)
\* values of every JSON type, used where a field of another type is expected
Scalars == {JNull, JBool(TRUE), JInt(7), JStr("x")}

ArtistVals ==
    {JNull, JStr("x"), JEmptyObj, FullArtist,
     JObj([id |-> JInt(1), name |-> JStr("Artist")]),
     JObj([id |-> JStr("ar1"), name |-> JNull])}

ArtistsInputs ==
    Scalars \cup {JEmptyObj, JArr(<<>>)}
    \cup {JArr(<<a>>) : a \in ArtistVals}
    \cup {JArr(<<a, FullArtist>>) : a \in ArtistVals}

DimVals == {Absent, JNull, JStr("64"), JInt(-1), JFloat(64), JInt(0), JInt(64)}

ImageVals ==
    {JNull, JInt(7), JEmptyObj}
    \cup {JObj([url |-> u, height |-> h, width |-> w]) :
             u \in {Absent, JInt(1), JStr("img")}, h \in DimVals, w \in {Absent, JInt(64)}}

ImagesInputs ==
    Scalars \cup {JEmptyObj, JArr(<<>>)} \cup {JArr(<<i>>) : i \in ImageVals}

AlbumInputs ==
    Scalars \cup {JEmptyObj, JArr(<<>>), FullAlbum}
    \cup {JObj([id |-> i, name |-> n, artists |-> ar, images |-> im]) :
             i \in {Absent, JBool(TRUE), JStr("al1")},
             n \in {Absent, JNull, JStr("Album")},
             ar \in {Absent, JStr("x"), JArr(<<FullArtist>>)},
             im \in {Absent, JEmptyObj, JArr(<<FullImage>>)}}

\* serde_json::Map values handed to parse_track_from_json
TrackInputs ==
    {JObj([id |-> i, name |-> n, album |-> al, artists |-> ar, explicit |-> e,
           preview_url |-> p, duration_ms |-> d, popularity |-> po]).v :
        i  \in {Absent, JInt(1), JStr("t1")},
        n  \in {Absent, JStr("Song")},
        al \in {Absent, JNull, FullAlbum},
        ar \in {Absent, JStr("x"), JArr(<<FullArtist>>)},
        e  \in {Absent, JStr("yes"), JBool(TRUE)},
        p  \in {Absent, JNull, JStr("p")},
        d  \in {Absent, JInt(-5), JFloat(1), JInt(1000)},
        po \in {Absent, JNull, JStr("50"), JInt(-1), JFloat(50), JInt(0), JInt(50),
                JInt(255), JInt(256), JInt(300)}}

Applied(fn, input, output) ==
    /\ pfn' = fn
    /\ pin' = input
    /\ pout' = output

ParseTrack ==
    /\ pfn = "none"
    /\ \E m \in TrackInputs : Applied("track", m, parse_track_from_json(m))
    /\ UNCHANGED handlerVars

ParseAlbum ==
    /\ pfn = "none"
    /\ \E j \in AlbumInputs : Applied("album", j, Returned(parse_album_from_json(j)))
    /\ UNCHANGED handlerVars

ParseArtists ==
    /\ pfn = "none"
    /\ \E j \in ArtistsInputs : Applied("artists", j, Returned(parse_artists_from_json(j)))
    /\ UNCHANGED handlerVars

ParseAlbumImages ==
    /\ pfn = "none"
    /\ \E j \in ImagesInputs :
          Applied("images", j, Returned(parse_album_images_from_json(j)))
    /\ UNCHANGED handlerVars

\* the type member of the item of a currently-playing body
TypeVals == {Absent, JNull, JInt(1), JStr("episode"), JStr("Track"), JStr("track")}

ItemInputs ==
    {Absent, JNull, JStr("track"), JArr(<<FullTrack>>)}
    \cup {JObj([type |-> ty]) : ty \in TypeVals}
    \cup {JObj([k \in DOMAIN FullTrack.v |-> IF k = "type" THEN ty ELSE FullTrack.v[k]]) :
             ty \in TypeVals}
    \cup {JWithout(FullTrack, k) : k \in TrackKeys}

\* serde_json::Value bodies handed to parse_currently_playing_response
CurrentlyPlayingInputs ==
    Scalars \cup {JEmptyObj, JArr(<<>>)}
    \cup {JObj([is_playing |-> p, item |-> i]) :
             p \in {Absent, JNull, JStr("true"), JInt(1), JBool(FALSE), JBool(TRUE)},
             i \in ItemInputs}

ParseCurrentlyPlaying ==
    /\ pfn = "none"
    /\ \E j \in CurrentlyPlayingInputs :
          Applied("currently_playing", j, parse_currently_playing_response(j))
    /\ UNCHANGED handlerVars

InitParse ==
    /\ store = <<>>
    /\ now = 0
    /\ pc = [r \in Reqs |-> "idle"]
    /\ token = [r \in Reqs |-> None]
    /\ pending = [r \in Reqs |-> None]
    /\ resp = [r \in Reqs |-> NoResponse]
    /\ calls = [r \in Reqs |-> <<>>]
    /\ upstream = [cp |-> TransportError, rp |-> TransportError]
    /\ ParseIdle

NextParse ==
    \/ ParseTrack
    \/ ParseAlbum
    \/ ParseArtists
    \/ ParseAlbumImages
    \/ ParseCurrentlyPlaying

SpecParse == InitParse /\ [][NextParse]_vars

(***************************************************************************)
(* What the claims speak about.                                            *)
(***************************************************************************)
\* request r called the token endpoint (always its first upstream call)
Refreshed(r) == Len(calls[r]) > 0 /\ calls[r][1].ep = "token"

\* the token endpoint accepted request r's refresh and its body deserialised
RefreshAccepted(r) ==
    /\ Refreshed(r)
    /\ ~calls[r][1].out.err
    /\ is_success(calls[r][1].out.status)
    /\ calls[r][1].out.body.ok

\* the SpotifyRefreshResponse request r received
RefreshResponseOf(r) == calls[r][1].out.body.v

\* request r's step is the UPDATE of a successful refresh
RefreshWrites(r) == pc[r] = "update" /\ pc'[r] = "fetch_cp"

CallsTo(r, ep) == Cardinality({i \in 1..Len(calls[r]) : calls[r][i].ep = ep})

(***************************************************************************)
(* C1. get_valid_access_token refreshes exactly when the credential it     *)
(* read has no expires_at or now >= expires_at (now = expires_at counts as *)
(* expired); with expires_at strictly in the future it hands the stored    *)
(* credential on unchanged, writes nothing and makes no call.  The token   *)
(* endpoint is only ever called by a request that decided to refresh.      *)
(***************************************************************************)
C1_Decision(r) ==
    (pc[r] = "start" /\ token'[r].some) =>
        LET cred    == token'[r].v
            expired == ~cred.expires_at.some \/ now >= cred.expires_at.v
        IN  /\ cred = store[1]
            /\ store' = store
            /\ calls'[r] = <<>>
            /\ pc'[r] = IF expired THEN "refresh" ELSE "fetch_cp"

C1_TokenCallOnlyAfterDecision(r) ==
    (CallsTo(r, "token")' > CallsTo(r, "token")) =>
        /\ pc[r] = "refresh"
        /\ ~token[r].v.expires_at.some \/ now >= token[r].v.expires_at.v

C1_RefreshIffExpired ==
    [][\A r \in Reqs : C1_Decision(r) /\ C1_TokenCallOnlyAfterDecision(r)]_vars

\* a request decided to refresh on the boundary now = expires_at and has
\* called the token endpoint
C1_Witness ==
    \E r \in Reqs :
        /\ Refreshed(r)
        /\ token[r].v.expires_at = Some(now)
        /\ now = InitExpiresAt

(***************************************************************************)
(* C2. The refresh token a successful refresh persists is the response's   *)
(* refresh_token when the response carries one, and the refresh token of   *)
(* the credential the refresh was given when the response omits it.        *)
(***************************************************************************)
C2_Persisted(r) ==
    RefreshWrites(r) =>
        LET given    == token[r].v
            response == RefreshResponseOf(r)
            expected == IF response.refresh_token.some
                        THEN response.refresh_token.v
                        ELSE given.refresh_token
        IN  /\ \A i \in 1..Len(store') :
                  store'[i].id = given.id => store'[i].refresh_token = expected
            /\ token'[r].v.refresh_token = expected

C2_RefreshTokenReplacedOrRetained == [][\A r \in Reqs : C2_Persisted(r)]_vars

\* one refresh rotated the refresh token, a later one whose response omitted it
\* kept the rotated one
C2_Witness ==
    \E r, q \in Reqs :
        /\ RefreshAccepted(q) /\ RefreshResponseOf(q).refresh_token = Some("r1")
        /\ RefreshAccepted(r) /\ RefreshResponseOf(r).refresh_token = None
        /\ calls[r][1].refresh_token = "r1"
        /\ pc[r] = "done" /\ resp[r].status = 200
        /\ store[1].access_token = r /\ store[1].refresh_token = "r1"

(***************************************************************************)
(* C3 as claimed. Once a refresh has succeeded (the row carries an         *)
(* updated_at), the stored access token is paired with a non-null          *)
(* expires_at, whatever accepted response the refresh received.            *)
(***************************************************************************)
C3_Claim ==
    \A i \in 1..Len(store) : store[i].updated_at.some => store[i].expires_at.some

(***************************************************************************)
(* C3 amended. The row a successful refresh writes pairs the response's    *)
(* access token with expires_at = refresh time + expires_in when the       *)
(* response carries expires_in, and with no expires_at when the response   *)
(* omits it.                                                               *)
(***************************************************************************)
C3_Written(r) ==
    RefreshWrites(r) =>
        LET response == RefreshResponseOf(r)
        IN  \A i \in 1..Len(store') :
                store'[i].id = token[r].v.id =>
                    /\ store'[i].access_token = response.access_token
                    /\ store'[i].updated_at.some
                    /\ store'[i].expires_at =
                          IF response.expires_in.some
                          THEN Some(store'[i].updated_at.v + response.expires_in.v)
                          ELSE None

C3_ExpiresAtFollowsExpiresIn == [][\A r \in Reqs : C3_Written(r)]_vars

\* the stored row was written by a refresh whose response carried expires_in
C3_Witness ==
    \E r \in Reqs :
        /\ RefreshAccepted(r) /\ RefreshResponseOf(r).expires_in = Some(TokenLifetime)
        /\ pc[r] \in {"fetch_cp", "fetch_rp", "done"}
        /\ store[1].access_token = r
        /\ store[1].expires_at.some /\ store[1].updated_at.some

(***************************************************************************)
(* C4 as claimed. The stored refresh token is never the empty string,      *)
(* whatever refresh_token the token endpoint answers with.                 *)
(***************************************************************************)
C4_Claim == \A i \in 1..Len(store) : store[i].refresh_token # ""

(***************************************************************************)
(* C5. A request that finds no credential in the store, or whose refresh   *)
(* the token endpoint answers with a non-success status, responds 401      *)
(* SPOTIFY_AUTH_FAILED with details null and calls neither player endpoint.*)
(***************************************************************************)
NoCredential(r) == Len(store) = 0 /\ pc[r] \notin {"idle", "start"}

RefreshRefused(r) ==
    Refreshed(r) /\ ~calls[r][1].out.err /\ ~is_success(calls[r][1].out.status)

C5_AuthFailureIs401 ==
    \A r \in Reqs :
        (NoCredential(r) \/ RefreshRefused(r)) =>
            /\ pc[r] = "done"
            /\ resp[r] = [status |-> 401, code |-> "SPOTIFY_AUTH_FAILED", details |-> None]
            /\ CallsTo(r, "cp") = 0
            /\ CallsTo(r, "rp") = 0

\* a request whose refresh the token endpoint refused has responded
C5_Witness == \E r \in Reqs : RefreshRefused(r) /\ pc[r] = "done"

(***************************************************************************)
(* The documented shape of a normalised value, written from the JSON       *)
(* value alone: a string field is the JSON string or "", a boolean the     *)
(* JSON boolean or false, a number the non-negative JSON integer or 0, an  *)
(* optional field null unless of its type, a list empty unless an array.   *)
(***************************************************************************)
\* member k of json, Absent when json is no object or has no such member
Member(json, k) == IF json.t = "obj" THEN json.v[k] ELSE Absent

IsUint(json) == json.t = "num" /\ ~json.frac /\ json.v >= 0

StringOrEmpty(json) == IF json.t = "str" THEN json.v ELSE ""

BoolOrFalse(json) == IF json.t = "bool" THEN json.v ELSE FALSE

UintOrZero(json) == IF IsUint(json) THEN json.v ELSE 0

StringOrNull(json) == IF json.t = "str" THEN Some(json.v) ELSE None

UintOrNull(json) == IF IsUint(json) THEN Some(json.v) ELSE None

ElementsOrNone(json) == IF json.t = "arr" THEN json.v ELSE <<>>

DocArtists(json) ==
    LET elems == ElementsOrNone(json)
    IN  [i \in 1..Len(elems) |->
            [id   |-> StringOrEmpty(Member(elems[i], "id")),
             name |-> StringOrEmpty(Member(elems[i], "name"))]]

DocImages(json) ==
    LET elems == ElementsOrNone(json)
    IN  [i \in 1..Len(elems) |->
            [url    |-> StringOrEmpty(Member(elems[i], "url")),
             height |-> UintOrNull(Member(elems[i], "height")),
             width  |-> UintOrNull(Member(elems[i], "width"))]]

DocAlbum(json) ==
    [id      |-> StringOrEmpty(Member(json, "id")),
     name    |-> StringOrEmpty(Member(json, "name")),
     artists |-> DocArtists(Member(json, "artists")),
     images  |-> DocImages(Member(json, "images"))]

\* track is the documented normalisation of the JSON object with members m;
\* a popularity that is a number is left to the claim about its width
IsDocTrack(m, track) ==
    /\ track.id = StringOrEmpty(m["id"])
    /\ track.name = StringOrEmpty(m["name"])
    /\ track.album = DocAlbum(m["album"])
    /\ track.artists = DocArtists(m["artists"])
    /\ track.explicit = BoolOrFalse(m["explicit"])
    /\ track.preview_url = StringOrNull(m["preview_url"])
    /\ track.duration_ms = UintOrZero(m["duration_ms"])
    /\ ~IsUint(m["popularity"]) => track.popularity = 0

\* what the player endpoints answered to request r
AnsweredCp(r) == CallsTo(r, "cp") > 0

CpJson == ~upstream.cp.err /\ upstream.cp.status = 200 /\ upstream.cp.body.ok

RpJson == ~upstream.rp.err /\ upstream.rp.status = 200 /\ upstream.rp.body.ok

FallbackEntered(r) == pc[r] = "fetch_rp" \/ CallsTo(r, "rp") > 0

(***************************************************************************)
(* C6 as claimed. Once a request has entered the fallback path it ends     *)
(* with a 200: no 401 or 500 is produced, and when recently-played fails   *)
(* in transport, answers another status than 200 or sends a body that is   *)
(* no JSON, the response is 200 {item: null, isPlaying: false, playedAt:   *)
(* null}.                                                                  *)
(***************************************************************************)
C6_Claim ==
    \A r \in Reqs :
        FallbackEntered(r) =>
            /\ resp[r].status \notin {401, 500}
            /\ pc[r] \in Terminal => resp[r].status = 200
            /\ (pc[r] \in Terminal /\ ~RpJson) =>
                  resp[r] = [status |-> 200,
                             body |-> [item |-> None, is_playing |-> FALSE,
                                       played_at |-> None]]

(***************************************************************************)
(* C7 as claimed. After a 204 from currently-playing the request calls     *)
(* recently-played exactly once and, when that answers 200 with JSON,      *)
(* responds 200 with isPlaying false and: item and playedAt null when      *)
(* items is empty or no array; otherwise playedAt = items[0].played_at     *)
(* (null unless a string) and item = the normalised items[0].track (null   *)
(* when that is no object).                                                *)
(***************************************************************************)
C7_Claim ==
    \A r \in Reqs :
        (/\ AnsweredCp(r) /\ ~upstream.cp.err /\ upstream.cp.status = 204
         /\ pc[r] \in Terminal /\ RpJson) =>
            LET items  == ElementsOrNone(Member(upstream.rp.body.v, "items"))
                body   == resp[r].body
            IN  /\ CallsTo(r, "rp") = 1
                /\ resp[r].status = 200
                /\ body.is_playing = FALSE
                /\ IF Len(items) = 0
                   THEN body.item = None /\ body.played_at = None
                   ELSE /\ body.played_at = StringOrNull(Member(items[1], "played_at"))
                        /\ IF Member(items[1], "track").t = "obj"
                           THEN /\ body.item.some
                                /\ IsDocTrack(Member(items[1], "track").v, body.item.v)
                           ELSE body.item = None

(***************************************************************************)
(* C8 as claimed. When currently-playing answers 200 with a body whose     *)
(* parsed item is null, the request goes on to recently-played and its     *)
(* response is the recently-played result, a 200 with isPlaying false      *)
(* whatever is_playing the currently-playing body had.                     *)
(***************************************************************************)
ParsedItemNull(json) ==
    LET parsed == parse_currently_playing_response(json)
    IN  ~parsed.panic /\ ~parsed.v.item.some

C8_Claim ==
    \A r \in Reqs :
        (AnsweredCp(r) /\ CpJson /\ ParsedItemNull(upstream.cp.body.v)) =>
            /\ FallbackEntered(r)
            /\ pc[r] \in Terminal =>
                  /\ CallsTo(r, "rp") = 1
                  /\ resp[r].status = 200
                  /\ resp[r].body.is_playing = FALSE

(***************************************************************************)
(* C9 as claimed. When currently-playing answers 200 with an item of type  *)
(* "track", the request ends in Playing: it responds 200 with the          *)
(* normalised track, isPlaying = the body's is_playing, playedAt null, and *)
(* never calls recently-played.                                            *)
(***************************************************************************)
ItemIsTrack(json) ==
    /\ Member(json, "item").t = "obj"
    /\ Member(Member(json, "item"), "type") = JStr("track")

C9_Claim ==
    \A r \in Reqs :
        (AnsweredCp(r) /\ CpJson /\ ItemIsTrack(upstream.cp.body.v)) =>
            LET json == upstream.cp.body.v
            IN  /\ pc[r] = "done"
                /\ CallsTo(r, "rp") = 0
                /\ resp[r].status = 200
                /\ resp[r].body.item.some
                /\ IsDocTrack(Member(json, "item").v, resp[r].body.item.v)
                /\ resp[r].body.is_playing = BoolOrFalse(Member(json, "is_playing"))
                /\ resp[r].body.played_at = None

(***************************************************************************)
(* C10 as claimed. parseTrack, parseAlbum, parseArtists and                *)
(* parseAlbumImages return a value for every input, and the value has the  *)
(* documented default in every field that is absent or of the wrong type.  *)
(***************************************************************************)
C10_Claim ==
    /\ pfn \in {"track", "album", "artists", "images"} => ~pout.panic
    /\ pfn = "track" => IsDocTrack(pin, pout.v)
    /\ pfn = "album" => pout.v = DocAlbum(pin)
    /\ pfn = "artists" => pout.v = DocArtists(pin)
    /\ pfn = "images" => pout.v = DocImages(pin)

(***************************************************************************)
(* C11 as claimed. parseCurrentlyPlaying returns a value for every JSON    *)
(* value: item is the parsed Track exactly when item is an object whose    *)
(* type is the string "track", and null otherwise (item absent or no       *)
(* object, type absent, no string, or another string); isPlaying is the    *)
(* top-level is_playing (false unless a boolean); playedAt is null.        *)
(***************************************************************************)
C11_Claim ==
    pfn = "currently_playing" =>
        /\ ~pout.panic
        /\ pout.v.is_playing = BoolOrFalse(Member(pin, "is_playing"))
        /\ pout.v.played_at = None
        /\ IF ItemIsTrack(pin)
           THEN /\ pout.v.item.some
                /\ IsDocTrack(Member(pin, "item").v, pout.v.item.v)
           ELSE pout.v.item = None

(***************************************************************************)
(* C12. When currently-playing answers 200 with a body that is no JSON the *)
(* request responds 500 SPOTIFY_RESPONSE_PARSE_FAILURE; when it answers a  *)
(* status other than 200 and 204 the request responds 500                  *)
(* SPOTIFY_UNEXPECTED_RESPONSE; in both cases recently-played is not       *)
(* called.                                                                 *)
(***************************************************************************)
CpNotJson == ~upstream.cp.err /\ upstream.cp.status = 200 /\ ~upstream.cp.body.ok

CpOtherStatus == ~upstream.cp.err /\ upstream.cp.status \notin {200, 204}

C12_PrimaryPathErrors ==
    \A r \in Reqs :
        /\ (AnsweredCp(r) /\ CpNotJson) =>
              /\ pc[r] = "done"
              /\ resp[r].status = 500
              /\ resp[r].code = "SPOTIFY_RESPONSE_PARSE_FAILURE"
              /\ CallsTo(r, "rp") = 0
        /\ (AnsweredCp(r) /\ CpOtherStatus) =>
              /\ pc[r] = "done"
              /\ resp[r].status = 500
              /\ resp[r].code = "SPOTIFY_UNEXPECTED_RESPONSE"
              /\ CallsTo(r, "rp") = 0

\* a request was answered 202, a success status that is neither 200 nor 204,
\* after refreshing its credential
C12_Witness ==
    \E r \in Reqs :
        /\ AnsweredCp(r) /\ CpOtherStatus /\ upstream.cp.status = 202
        /\ RefreshAccepted(r)
        /\ pc[r] = "done"

(***************************************************************************)
(* C13 as claimed. A transport failure of an upstream call made before the *)
(* fallback gives 500: of the token-refresh POST a 500, of the             *)
(* currently-playing GET a 500 SPOTIFY_API_ERROR.  The same failure of the *)
(* recently-played call gives the 200 empty payload.  A 401 is never the   *)
(* answer to a transport failure.                                          *)
(***************************************************************************)
RefreshTransportFailed(r) == Refreshed(r) /\ calls[r][1].out.err

CpTransportFailed(r) == AnsweredCp(r) /\ upstream.cp.err

RpTransportFailed(r) == CallsTo(r, "rp") > 0 /\ upstream.rp.err

C13_Claim ==
    \A r \in Reqs :
        /\ RefreshTransportFailed(r) => pc[r] = "done" /\ resp[r].status = 500
        /\ CpTransportFailed(r) =>
              /\ pc[r] = "done"
              /\ resp[r].status = 500
              /\ resp[r].code = "SPOTIFY_API_ERROR"
        /\ RpTransportFailed(r) =>
              /\ pc[r] = "done"
              /\ resp[r] = OkResponse(EmptyTrackDetails)
        /\ resp[r].status = 401 =>
              ~(RefreshTransportFailed(r) \/ CpTransportFailed(r) \/ RpTransportFailed(r))

(***************************************************************************)
(* C14. Whatever the interleaving of requests that refresh the same        *)
(* credential, the stored row is the initial credential or carries exactly *)
(* the (access_token, refresh_token, expires_at, updated_at) one completed *)
(* refresh wrote, never fields of two refreshes; and a request whose       *)
(* refresh completed goes on with the credential of its own refresh, also  *)
(* after another request has overwritten the row.                          *)
(***************************************************************************)
\* request r's UPDATE was carried out
RefreshCompleted(r) ==
    /\ pending[r].some
    /\ pc[r] \in {"fetch_cp", "fetch_rp", "panicked"}
       \/ (pc[r] = "done" /\ resp[r].status # 401)

WrittenBy(row, r) ==
    /\ row.id = pending[r].v.id
    /\ row.access_token = pending[r].v.access_token
    /\ row.refresh_token = pending[r].v.refresh_token
    /\ row.expires_at = pending[r].v.expires_at
    /\ row.updated_at = pending[r].v.updated_at

C14_RaceNeverMixesRefreshes ==
    /\ store \in InitStores
       \/ \A i \in 1..Len(store) :
             \E r \in Reqs : RefreshCompleted(r) /\ WrittenBy(store[i], r)
    /\ \A r \in Reqs :
          RefreshCompleted(r) =>
              /\ WrittenBy(token[r].v, r)
              /\ token[r].v.access_token = RefreshResponseOf(r).access_token
              /\ \A i \in 2..Len(calls[r]) :
                    calls[r][i].bearer = RefreshResponseOf(r).access_token

\* both requests read the expired credential before either wrote, both
\* refreshes completed with different refresh tokens and both requests are
\* done; the row is what the later writer wrote
C14_Witness ==
    \E r, q \in Reqs :
        /\ r # q
        /\ RefreshCompleted(r) /\ RefreshCompleted(q)
        /\ calls[r][1].refresh_token = InitRefreshToken
        /\ calls[q][1].refresh_token = InitRefreshToken
        /\ pending[r].v.refresh_token # pending[q].v.refresh_token
        /\ pc[r] = "done" /\ pc[q] = "done"
        /\ WrittenBy(store[1], r)

(***************************************************************************)
(* C15 as claimed. Whatever the credential state and the upstream's        *)
(* statuses and bodies, a request that has ended has given one response    *)
(* out of 200 TrackDetails, 401 SPOTIFY_AUTH_FAILED, 500 SPOTIFY_API_ERROR,*)
(* 500 SPOTIFY_RESPONSE_PARSE_FAILURE, 500 SPOTIFY_UNEXPECTED_RESPONSE,    *)
(* and every error body has details null.                                  *)
(***************************************************************************)
ServerErrorCodes ==
    {"SPOTIFY_API_ERROR", "SPOTIFY_RESPONSE_PARSE_FAILURE", "SPOTIFY_UNEXPECTED_RESPONSE"}

InResponseSet(response) ==
    \/ response.status = 200
    \/ /\ response.status = 401
       /\ response.code = "SPOTIFY_AUTH_FAILED"
       /\ response.details = None
    \/ /\ response.status = 500
       /\ response.code \in ServerErrorCodes
       /\ response.details = None

C15_Claim ==
    \A r \in Reqs :
        /\ pc[r] \in Terminal => InResponseSet(resp[r])
        /\ pc[r] \notin Terminal => resp[r] = NoResponse

(***************************************************************************)
(* C16 as claimed. A request makes at most one call of the token endpoint, *)
(* at most one of currently-playing and at most one of recently-played, in *)
(* that order and one after the other, none repeated after a failure; and  *)
(* when every store and upstream call returns, every request that arrived  *)
(* eventually responds.                                                    *)
(***************************************************************************)
Rank(ep) == CASE ep = "token" -> 1 [] ep = "cp" -> 2 [] ep = "rp" -> 3

CallsInOrder(r) ==
    /\ \A i, j \in 1..Len(calls[r]) :
          i < j => Rank(calls[r][i].ep) < Rank(calls[r][j].ep)
    /\ CallsTo(r, "rp") > 0 => CallsTo(r, "cp") > 0

C16_Claim ==
    /\ [](\A r \in Reqs : CallsInOrder(r))
    /\ \A r \in Reqs : (pc[r] = "start") ~> (pc[r] = "done")

(***************************************************************************)
(* C17. A successful refresh computes access_token = the response's        *)
(* access_token, updated_at = now and, from a response with expires_in,    *)
(* expires_at = now + expires_in; the stored row and the credential handed *)
(* to the handler both carry these values; and the request's calls of      *)
(* currently-playing and recently-played bear this access token, never the *)
(* one read at the start of the request.                                   *)
(***************************************************************************)
C17_Computed(r) ==
    (pc[r] = "refresh" /\ pc'[r] = "update") =>
        LET response == calls'[r][1].out.body.v
            args     == pending'[r].v
        IN  /\ args.access_token = response.access_token
            /\ args.updated_at = Some(now)
            /\ response.expires_in.some =>
                  args.expires_at = Some(now + response.expires_in.v)

C17_Carried(r) ==
    RefreshWrites(r) =>
        /\ \A i \in 1..Len(store') :
              store'[i].id = token[r].v.id => WrittenBy(store'[i], r)
        /\ \E i \in 1..Len(store') : store'[i].id = token[r].v.id
        /\ WrittenBy(token'[r].v, r)

C17_Used(r) ==
    RefreshAccepted(r) =>
        \A i \in 2..Len(calls[r]) :
            /\ calls[r][i].bearer = RefreshResponseOf(r).access_token
            /\ calls[r][i].bearer # 0

C17_NewTokenStoredAndUsed ==
    /\ [][\A r \in Reqs : C17_Computed(r) /\ C17_Carried(r)]_vars
    /\ [](\A r \in Reqs : C17_Used(r))

\* a request refreshed a credential that had expired, was given expires_in,
\* and has called both player endpoints with the new access token
C17_Witness ==
    \E r \in Reqs :
        /\ RefreshAccepted(r)
        /\ RefreshResponseOf(r).expires_in = Some(TokenLifetime)
        /\ CallsTo(r, "cp") = 1 /\ CallsTo(r, "rp") = 1
        /\ calls[r][3].bearer = r
        /\ store[1].access_token = r
        /\ store[1].expires_at = Some(store[1].updated_at.v + TokenLifetime)
        /\ pc[r] = "done"

(***************************************************************************)
(* C18. The table is written only by the UPDATE of a successful refresh: a *)
(* step of a request whose credential is unexpired, or whose refresh       *)
(* failed (transport error, non-success status, unparseable response),     *)
(* leaves it as it is; and that UPDATE keeps the number of rows, the id    *)
(* and scope of every row, and every row whose id is not the one of the    *)
(* credential read.                                                        *)
(***************************************************************************)
C18_Frame(r) ==
    /\ Len(store') = Len(store)
    /\ \A i \in 1..Len(store) :
          /\ store'[i].id = store[i].id
          /\ store'[i].scope = store[i].scope
          /\ store[i].id # token[r].v.id => store'[i] = store[i]

C18_StoreWrittenOnlyByRefresh ==
    [][store' # store =>
          \E r \in Reqs :
              /\ RefreshWrites(r)
              /\ RefreshAccepted(r)
              /\ C18_Frame(r)]_vars

\* a request's refresh succeeded and the row it wrote is the only one and has
\* the id and scope of the initial row
C18_Witness ==
    \E r \in Reqs :
        /\ RefreshCompleted(r)
        /\ pc[r] = "done"
        /\ Len(store) = 1
        /\ store[1].updated_at.some
        /\ store[1].access_token = r
        /\ store[1].id = InitRow(None).id /\ store[1].scope = InitRow(None).scope

(***************************************************************************)
(* C19 as claimed. Under concurrent requests the stored refresh token does *)
(* not regress: once a refresh has persisted the rotated refresh token of  *)
(* an upstream response, no later write puts the initial refresh token     *)
(* back into the row.                                                      *)
(***************************************************************************)
C19_Claim ==
    [][\A i \in 1..Len(store) :
          store[i].refresh_token = RotatedRefreshToken =>
              store'[i].refresh_token # InitRefreshToken]_vars

(***************************************************************************)
(* C20. A successful refresh whose response omits expires_in stores no     *)
(* expires_at, and one whose expires_in is zero or negative stores an      *)
(* expires_at that is not in the future.  Every request that then reads    *)
(* the credential refreshes again, with one call of the token endpoint,    *)
(* and only a row whose expires_at lies in the future is handed on         *)
(* without a refresh.                                                      *)
(***************************************************************************)
C20_Stored(r) ==
    RefreshWrites(r) =>
        LET expires_in == RefreshResponseOf(r).expires_in
        IN  \A i \in 1..Len(store') :
                store'[i].id = token[r].v.id =>
                    /\ ~expires_in.some => store'[i].expires_at = None
                    /\ (expires_in.some /\ expires_in.v <= 0) =>
                          /\ store'[i].expires_at.some
                          /\ store'[i].expires_at.v <= now

\* request q reads a row that a refresh wrote
ReadsRefreshedRow(q) ==
    /\ pc[q] = "start"
    /\ token'[q].some
    /\ token'[q].v.updated_at.some

C20_RefreshesAgain(q) ==
    /\ ReadsRefreshedRow(q) =>
          LET expires_at == token'[q].v.expires_at
          IN  IF expires_at.some /\ expires_at.v > now
              THEN pc'[q] = "fetch_cp"
              ELSE pc'[q] = "refresh"
    /\ (pc[q] = "refresh" /\ pc'[q] # "refresh") =>
          CallsTo(q, "token")' = 1 /\ Len(calls'[q]) = 1

C20_NoExpiryRefreshesEveryRequest ==
    /\ [][\A r \in Reqs : C20_Stored(r) /\ C20_RefreshesAgain(r)]_vars
    /\ [](\A r \in Reqs : CallsTo(r, "token") <= 1)

\* request r's refresh was answered without expires_in and rotated the
\* refresh token; request q then read that row and refreshed again, and its
\* refresh stored an expires_at in the future
C20_Witness ==
    \E r, q \in Reqs :
        /\ r # q
        /\ RefreshCompleted(r)
        /\ RefreshResponseOf(r).expires_in = None
        /\ RefreshResponseOf(r).refresh_token = Some(RotatedRefreshToken)
        /\ RefreshCompleted(q)
        /\ calls[q][1].refresh_token = RotatedRefreshToken
        /\ CallsTo(q, "token") = 1
        /\ WrittenBy(store[1], q)
        /\ store[1].expires_at.some /\ store[1].expires_at.v > now

(***************************************************************************)
(* C21 as claimed. parseTrack gives an 8-bit popularity for every track    *)
(* object: for a popularity that is a non-negative integer p it gives p    *)
(* when p <= 255 and p mod 256 when p > 255, and it gives 0 when           *)
(* popularity is absent, negative, fractional or not a number.             *)
(***************************************************************************)
C21_Claim ==
    pfn = "track" =>
        /\ ~pout.panic
        /\ LET p == pin["popularity"]
           IN  IF IsUint(p)
               THEN pout.v.popularity = IF p.v <= 255 THEN p.v ELSE p.v % 256
               ELSE pout.v.popularity = 0

====
